---- MODULE Spec2Model ----
(***************************************************************************)
(* Base Board (obsidian-base-board): the kanban view over a grouped file   *)
(* query.  The model covers the vault's frontmatter (group property and    *)
(* kanban_order), the host's grouped query result, the saved column list,  *)
(* the rendered board (DOM), the batch updates of handleCardDrop and       *)
(* handleRenameColumn with their await points, and the render scheduling   *)
(* (isUpdating, pendingRender, renderTimer).                               *)
(***************************************************************************)
EXTENDS Integers, Sequences, FiniteSets, TLC

\* ---------------------------------------------------------------- constants

NO_VALUE_COLUMN == "(No value)"
\* getFileOrder's result for a file without a numeric kanban_order.
Infinity == 1000
\* The group key of entries without a value for the group-by property (NullValue).
NullKey == "<null>"
\* getCardSourceColumn's null result.
NoColumn == "<none>"
\* No file / no write in flight.
NoPath == ""

\* File paths of the vault folder the board queries.
Paths == {"a", "b", "c"}
\* Names a user types into the add-column and rename-column inputs.
UserNames == {"A", "B", NO_VALUE_COLUMN}
\* Batch updates (card drops, column renames) that may be in flight together.
MaxBatches == 2
\* Timer ids the host hands out (never the id of a timer still pending).
MaxTimers == 2
\* User operations (board actions, changes of the group-by setting) in one run.
MaxUserOps == 2

Batches == 1..MaxBatches
TimerIds == 1..MaxTimers

\* ---------------------------------------------------------------- sequences

Range(s) == {s[i] : i \in 1..Len(s)}

Includes(s, x) == \E i \in 1..Len(s) : s[i] = x

InsertAt(s, pos, x) == SubSeq(s, 1, pos) \o <<x>> \o SubSeq(s, pos + 1, Len(s))

RemoveAt(s, i) == SubSeq(s, 1, i - 1) \o SubSeq(s, i + 1, Len(s))

RECURSIVE Filter(_, _)
\* Array.prototype.filter with the predicate "is a member of keep".
Filter(s, keep) ==
  IF s = <<>> THEN <<>>
  ELSE IF Head(s) \in keep THEN <<Head(s)>> \o Filter(Tail(s), keep)
  ELSE Filter(Tail(s), keep)

\* -------------------------------------------------------------------- state

VARIABLES
  exists,         \* vault: [Paths -> BOOLEAN], a file is at the path
  fmGroup,        \* frontmatter: value of the group-by property, NullKey if absent
  fmOrder,        \* frontmatter: numeric kanban_order, Infinity if none
  fm,             \* frontmatter: the other keys (order, tags, tag), <<>> if absent
  data,           \* this.data: the host's query result [groupBy, groupedData]
  stored,         \* plugin.data_.columnConfigs: [base id -> column names]
  currentGroups,  \* KanbanView.currentGroups
  dom,            \* the rendered board inside containerEl
  isUpdating,     \* KanbanView.isUpdating
  pendingRender,  \* KanbanView.pendingRender
  renderTimer,    \* KanbanView.renderTimer: a timer id, 0 for null
  timers,         \* the host's pending timeouts (ids)
  batch,          \* [Batches -> batch update in flight, or Idle]
  ops,            \* user operations performed so far
  burst,          \* scheduleRender() calls since the last timer's render (2: two or more)
  owed,           \* a batch has ended that onDataUpdated() was called during; no render since
  expect,         \* the last completed card drop, up to the render that shows it
  ev,             \* what the last step did: handler, render() run, Notice, batch ended
  notes,          \* the notes of the folder new cards are created in
  tree,           \* the vault's folders and .base files
  views,          \* the open boards: [.base file -> host data and currentGroups]
  probe,          \* a dragover event: the container's children, the cursor, the outcome
  dd,             \* the DragDropManager, its board's DOM and the browser's drag session
  unloaded        \* onunload() has run

vaultVars == <<exists, fmGroup, fmOrder, fm>>
schedVars == <<isUpdating, pendingRender, renderTimer, timers, burst>>
\* State of the parts that are modelled on their own (card creation, board
\* scaffolding).
auxVars == <<notes, tree, views, probe, dd, unloaded>>
viewVars == <<data, stored, currentGroups, dom, schedVars, batch, ops, owed, expect>>
vars == <<exists, fmGroup, fmOrder, fm, data, stored, currentGroups, dom,
          isUpdating, pendingRender, renderTimer, timers, batch, ops, burst, owed,
          expect, ev, notes, tree, views, probe, dd, unloaded>>

\* ------------------------------------------------------------ host grouping

\* The order in which the host lists entries (the view's file sort).
PathOrder == <<"a", "b", "c">>
\* The order in which the host lists groups.
KeyOrder == <<"A", "B", NO_VALUE_COLUMN, NullKey>>

Group(key, entries) == [key |-> key, entries |-> entries]

RECURSIVE GroupsOf(_, _, _)
GroupsOf(keys, ex, fg) ==
  IF keys = <<>> THEN <<>>
  ELSE LET members == Filter(PathOrder, {p \in Paths : ex[p] /\ fg[p] = Head(keys)})
       IN  (IF members = <<>> THEN <<>> ELSE <<Group(Head(keys), members)>>)
           \o GroupsOf(Tail(keys), ex, fg)

\* data.groupedData as the host computes it from the vault: one group per
\* value of the group-by property; without group-by, one group with a null key.
GroupedData(gb, ex, fg) ==
  IF gb THEN GroupsOf(KeyOrder, ex, fg)
  ELSE LET all == Filter(PathOrder, {p \in Paths : ex[p]})
       IN  IF all = <<>> THEN <<>> ELSE <<Group(NullKey, all)>>

\* ------------------------------------------------------------- view helpers

getBaseId == IF data.groupBy THEN "board.base::note.status" ELSE "board.base::"

getGroupByProperty == IF data.groupBy THEN "status" ELSE NoPath

getColumnName(key) == IF key = NullKey THEN NO_VALUE_COLUMN ELSE key

getFileOrder(filePath) ==
  IF ~exists[filePath] THEN Infinity ELSE fmOrder[filePath]

dataColumns(groups) == [i \in 1..Len(groups) |-> getColumnName(groups[i].key)]

\* The loop of getColumns without its result.includes(col) check.
AppendAll(result, cols) == result \o cols

RECURSIVE AppendMissing(_, _)
AppendMissing(result, cols) ==
  IF cols = <<>> THEN result
  ELSE IF Includes(result, Head(cols)) THEN AppendMissing(result, Tail(cols))
  ELSE AppendMissing(Append(result, Head(cols)), Tail(cols))

getColumnsOf(st, groups) ==
  IF Len(st) > 0 THEN AppendMissing(st, dataColumns(groups)) ELSE dataColumns(groups)

getColumns == getColumnsOf(stored[getBaseId], currentGroups)

RECURSIVE getGroupForColumn(_, _)
getGroupForColumn(groups, columnName) ==
  IF groups = <<>> THEN Group(NullKey, <<>>)
  ELSE IF getColumnName(Head(groups).key) = columnName THEN Head(groups)
  ELSE getGroupForColumn(Tail(groups), columnName)

RECURSIVE getCardSourceColumnIn(_, _)
getCardSourceColumnIn(groups, filePath) ==
  IF groups = <<>> THEN NoColumn
  ELSE IF Includes(Head(groups).entries, filePath) THEN getColumnName(Head(groups).key)
  ELSE getCardSourceColumnIn(Tail(groups), filePath)

\* getCardSourceColumn finding no group for the card.
getCardSourceColumnNull(filePath) == NoColumn

getCardSourceColumn(filePath) == getCardSourceColumnIn(currentGroups, filePath)

\* ---------------------------------------------------------------- rendering

RECURSIVE InsertByOrder(_, _)
\* One step of the stable sort by getFileOrder(a) - getFileOrder(b): x goes
\* after every element that does not compare greater (Infinity - Infinity is
\* NaN, which sort takes as equal).
InsertByOrder(sorted, x) ==
  IF sorted = <<>> THEN <<x>>
  ELSE IF getFileOrder(x) < getFileOrder(Head(sorted)) THEN <<x>> \o sorted
  ELSE <<Head(sorted)>> \o InsertByOrder(Tail(sorted), x)

RECURSIVE SortByOrder(_)
SortByOrder(entries) ==
  IF entries = <<>> THEN <<>>
  ELSE InsertByOrder(SortByOrder(SubSeq(entries, 1, Len(entries) - 1)),
                     entries[Len(entries)])

renderColumn(columnName, group) ==
  [name |-> columnName, entries |-> group.entries, cards |-> SortByOrder(group.entries)]

hasGroupBy(groupedData) ==
  Len(groupedData) > 1 \/ (Len(groupedData) = 1 /\ groupedData[1].key # NullKey)

EmptyDom == [board |-> FALSE, cols |-> <<>>, dragging |-> {}, renaming |-> {}]

\* render() with `st` the saved column list at the time of the call: the
\* resulting DOM and currentGroups.
render(st) ==
  LET groupedData == data.groupedData IN
  IF ~hasGroupBy(groupedData)
  THEN [dom |-> EmptyDom, groups |-> currentGroups]
  ELSE LET columns == getColumnsOf(st, groupedData) IN
       [dom |-> [board |-> TRUE,
                 cols |-> [i \in 1..Len(columns) |->
                            renderColumn(columns[i],
                                         getGroupForColumn(groupedData, columns[i]))],
                 dragging |-> {},
                 renaming |-> {}],
        groups |-> groupedData]

\* --------------------------------------------------------- render scheduling

\* The scheduling fields as one value, so that the handlers compose.
Sched == [isUpdating |-> isUpdating, pendingRender |-> pendingRender,
          renderTimer |-> renderTimer, timers |-> timers, burst |-> burst]

ApplySched(s) ==
  /\ isUpdating' = s.isUpdating
  /\ pendingRender' = s.pendingRender
  /\ renderTimer' = s.renderTimer
  /\ timers' = s.timers
  /\ burst' = s.burst

\* setTimeout returns an id that no pending timer has.
TimerAvailable == Cardinality(timers) < MaxTimers

FreshTimer(s) ==
  CHOOSE t \in TimerIds \ s.timers : \A u \in TimerIds \ s.timers : t <= u

\* scheduleRender without its clearTimeout.
scheduleRenderKeepTimer(s) ==
  [s EXCEPT !.renderTimer = FreshTimer(s), !.timers = @ \cup {FreshTimer(s)},
            !.burst = IF @ = 0 THEN 1 ELSE 2]

\* if (this.renderTimer) clearTimeout(this.renderTimer);
\* this.renderTimer = setTimeout(() => { this.renderTimer = null; this.render(); }, 50);
scheduleRender(s) ==
  LET cleared == IF s.renderTimer # 0 THEN s.timers \ {s.renderTimer} ELSE s.timers
      t == FreshTimer([s EXCEPT !.timers = cleared])
  IN  [s EXCEPT !.renderTimer = t, !.timers = cleared \cup {t},
                !.burst = IF @ = 0 THEN 1 ELSE 2]

onDataUpdated(s) ==
  IF s.isUpdating THEN [s EXCEPT !.pendingRender = TRUE] ELSE scheduleRender(s)

\* "Block re-renders during batch update"
beginBatch(s) == [s EXCEPT !.isUpdating = TRUE, !.pendingRender = FALSE]

\* The finally block, and after it (reached only when nothing was thrown) the
\* pendingRender check.
endBatch(s, ok) ==
  LET f == [s EXCEPT !.isUpdating = FALSE]
  IN  IF ok /\ f.pendingRender THEN scheduleRender([f EXCEPT !.pendingRender = FALSE])
      ELSE f

\* ------------------------------------------------------------ batch updates

\* A handler between its awaits.  groupBy, baseId and columns are the values
\* the handler read when it was called.  The last five fields are history: a
\* path had no file; another writer changed the vault; another handler saved
\* the column list; the board showed the vault's state at the call;
\* onDataUpdated() was called meanwhile.
Idle == [kind |-> "none", card |-> NoPath, target |-> "", src |-> "",
         paths |-> <<>>, cur |-> NoPath, idx |-> 0, next |-> 1,
         groupBy |-> FALSE, baseId |-> "", columns |-> <<>>,
         skipped |-> FALSE, interfered |-> FALSE, reconfigured |-> FALSE,
         fresh |-> FALSE, notified |-> FALSE]

InFlight == {b \in Batches : batch[b].kind # "none"}

Min(S) == CHOOSE x \in S : \A y \in S : x <= y

\* The loops' "if (!file || !(file instanceof TFile)) continue": the next path
\* with a file gets its processFrontMatter call; cur = NoPath when none is left.
Advance(rec) ==
  LET cand == {k \in rec.next..Len(rec.paths) : exists[rec.paths[k]]}
  IN  IF cand = {}
      THEN [rec EXCEPT !.cur = NoPath, !.idx = 0, !.next = Len(rec.paths) + 1,
                       !.skipped = @ \/ rec.next <= Len(rec.paths)]
      ELSE [rec EXCEPT !.cur = rec.paths[Min(cand)], !.idx = Min(cand),
                       !.next = Min(cand) + 1,
                       !.skipped = @ \/ Min(cand) > rec.next]

\* Another writer changed the vault while these batches were in flight.
Interfere(bt, except) ==
  [b \in Batches |->
     IF b # except /\ bt[b].kind # "none" THEN [bt[b] EXCEPT !.interfered = TRUE]
     ELSE bt[b]]

\* Another handler saved the column list while these batches were in flight.
Reconfigure(bt) ==
  [b \in Batches |->
     IF bt[b].kind # "none" THEN [bt[b] EXCEPT !.reconfigured = TRUE] ELSE bt[b]]

\* onDataUpdated() was called while these batches were in flight.
Notify(bt) ==
  [b \in Batches |->
     IF bt[b].kind # "none" THEN [bt[b] EXCEPT !.notified = TRUE] ELSE bt[b]]

\* The board shows the vault as it is: the query result is current and the
\* DOM is what render() would build from it.
DomFresh ==
  /\ data.groupedData = GroupedData(data.groupBy, exists, fmGroup)
  /\ dom = render(stored[getBaseId]).dom

\* expect: the target column and order of the last completed drop; alone:
\* the board showed the vault's state when the card was dropped, every path
\* had a file and nothing else has written the vault since; synced: the host
\* has recomputed the query result since; shown: the next render has just run.
NoDrop == [column |-> "", paths |-> <<>>, alone |-> FALSE,
           synced |-> FALSE, shown |-> FALSE]

ExpectBase == IF expect.shown THEN NoDrop ELSE expect

ExpectAfterDrop(rec) ==
  [column |-> rec.target, paths |-> rec.paths,
   alone |-> rec.fresh /\ ~rec.skipped /\ ~rec.interfered,
   synced |-> FALSE, shown |-> FALSE]

ExpectAfterWrite == [ExpectBase EXCEPT !.alone = FALSE]

ExpectAfterRender ==
  IF ExpectBase.synced THEN [ExpectBase EXCEPT !.shown = TRUE] ELSE ExpectBase

ExpectAfterData ==
  IF ExpectBase.column = "" THEN ExpectBase ELSE [ExpectBase EXCEPT !.synced = TRUE]

\* One more user operation, within the run's budget.
UserOp == ops < MaxUserOps /\ ops' = ops + 1

Event(op, rendered, notice, fin) ==
  [op |-> op, rendered |-> rendered, notice |-> notice, fin |-> fin]

\* The keys of a note's frontmatter besides the group-by property and
\* kanban_order, all absent.
NoKeys == [order |-> <<>>, tags |-> <<>>, tag |-> <<>>]

\* --------------------------------------------------------------------- Init

BaseIds == {"board.base::note.status", "board.base::"}

VaultInit ==
  /\ exists = [p \in Paths |-> p # "c"]
  /\ fmGroup \in {[a |-> "A", b |-> g, c |-> NullKey] :
                    g \in {"A", NO_VALUE_COLUMN, NullKey}}
  /\ fmOrder = [a |-> 0, b |-> 1, c |-> Infinity]
  /\ fm = [a |-> [order |-> <<2>>, tags |-> <<"x">>, tag |-> <<>>],
           b |-> [order |-> <<1>>, tags |-> <<>>, tag |-> <<"y">>],
           c |-> NoKeys]

\* The vault with both notes in column A.
VaultInitA == VaultInit /\ fmGroup["b"] = "A"

\* plugin.data_.columnConfigs as loaded: a column list saved earlier, or none.
StoredInit ==
  stored = [id \in BaseIds |->
              IF id = "board.base::" \/ fmGroup["b"] # "A" THEN <<>> ELSE <<"A", "B">>]

\* The view after construction, before the host's first onDataUpdated();
\* gb: the base file configures a group-by property.
ViewInit(gb) ==
  /\ data = [groupBy |-> gb, groupedData |-> GroupedData(gb, exists, fmGroup)]
  /\ currentGroups = <<>>
  /\ dom = EmptyDom
  /\ isUpdating = FALSE
  /\ pendingRender = FALSE
  /\ renderTimer = 0
  /\ timers = {}
  /\ batch = [b \in Batches |-> Idle]
  /\ ops = 0
  /\ burst = 0
  /\ owed = FALSE
  /\ expect = NoDrop
  /\ ev = Event("init", FALSE, "none", Idle)

\* No board besides the one of the view.
NoViews == <<>>

\* No placeholder in the board; no element.
NoPh == [kind |-> "none", col |-> 0, idx |-> 0]
NoEl == [kind |-> "none", col |-> 0, idx |-> 0, path |-> "", live |-> FALSE]

\* No callback of the drag-and-drop manager was invoked.
NoCall ==
  [kind |-> "none", list |-> <<>>, target |-> 0, payload |-> "",
   cols |-> <<>>, colMark |-> {}, cardMark |-> {}, ph |-> NoPh]

\* The DragDropManager after construction, no board rendered.
NoDrag ==
  [cols |-> <<>>, saved |-> <<>>, colMark |-> {}, cardMark |-> {}, ph |-> NoPh,
   orphans |-> FALSE, placeholderEl |-> FALSE, dragType |-> "none", draggedEl |-> NoEl,
   cardDropped |-> FALSE, session |-> "idle", payload |-> "", src |-> NoEl,
   raf |-> NoEl, called |-> FALSE, clean |-> FALSE, rerendered |-> FALSE,
   late |-> FALSE, drags |-> 0,
   out |-> NoCall]

\* No dragover event.
NoProbe == [children |-> <<>>, cursor |-> 0, applied |-> FALSE, closest |-> 0,
            shown |-> <<>>]

\* No folder and no .base file.
NoTree == [folders |-> {}, bases |-> {}]

Init ==
  /\ VaultInit
  /\ StoredInit
  /\ ViewInit(TRUE)
  /\ notes = {}
  /\ tree = NoTree
  /\ views = NoViews
  /\ probe = NoProbe
  /\ dd = NoDrag
  /\ unloaded = FALSE

\* ------------------------------------------------------------- host actions

\* The host recomputes the query result and calls onDataUpdated().
HostDataUpdated(gb) ==
  /\ TimerAvailable
  /\ IF gb = data.groupBy THEN ops' = ops ELSE UserOp
  /\ data' = [groupBy |-> gb, groupedData |-> GroupedData(gb, exists, fmGroup)]
  /\ ApplySched(onDataUpdated(Sched))
  /\ batch' = Notify(batch)
  /\ expect' = ExpectAfterData
  /\ ev' = Event("onDataUpdated", FALSE, "none", Idle)
  /\ UNCHANGED <<auxVars, vaultVars, stored, currentGroups, dom, owed>>

\* render() executes, `st` the saved column list at that time.
RenderNow(st) ==
  /\ dom' = render(st).dom
  /\ currentGroups' = render(st).groups
  /\ owed' = FALSE
  /\ expect' = ExpectAfterRender

\* The debounce timer expires: () => { this.renderTimer = null; this.render(); }
TimerFire(t) ==
  /\ t \in timers
  /\ timers' = timers \ {t}
  /\ renderTimer' = 0
  /\ burst' = 0
  /\ RenderNow(stored[getBaseId])
  /\ ev' = Event("timer", TRUE, "none", Idle)
  /\ UNCHANGED <<auxVars, vaultVars, data, stored, isUpdating, pendingRender, batch, ops>>

\* ----------------------------------------------------------- column actions

saveColumnConfig(columns) == [stored EXCEPT ![getBaseId] = columns]

\* promptAddColumn without its columns.includes(name) check.
promptAddColumnAnyName(name) ==
  /\ UserOp
  /\ dom.board
  /\ stored' = saveColumnConfig(Append(getColumns, name))
  /\ RenderNow(stored'[getBaseId])
  /\ batch' = Reconfigure(batch)
  /\ ev' = Event("addColumn", TRUE, "none", Idle)
  /\ UNCHANGED <<auxVars, vaultVars, data, schedVars>>

\* The InputModal's onSubmit of promptAddColumn.
promptAddColumn(name) ==
  /\ UserOp
  /\ dom.board
  /\ IF Includes(getColumns, name)
     THEN /\ ev' = Event("addRejected", FALSE, "error", Idle)
          /\ expect' = ExpectBase
          /\ UNCHANGED <<stored, dom, currentGroups, owed, batch>>
     ELSE /\ stored' = saveColumnConfig(Append(getColumns, name))
          /\ RenderNow(stored'[getBaseId])
          /\ batch' = Reconfigure(batch)
          /\ ev' = Event("addColumn", TRUE, "none", Idle)
  /\ UNCHANGED <<auxVars, vaultVars, data, schedVars>>

\* The delete button, rendered on a column without entries other than "(No value)".
handleDeleteColumn(i) ==
  /\ UserOp
  /\ i \in 1..Len(dom.cols)
  /\ dom.cols[i].entries = <<>>
  /\ dom.cols[i].name # NO_VALUE_COLUMN
  /\ stored' = saveColumnConfig(
                 SelectSeq(getColumns, LAMBDA c : c # dom.cols[i].name))
  /\ RenderNow(stored'[getBaseId])
  /\ batch' = Reconfigure(batch)
  /\ ev' = Event("deleteColumn", TRUE, "none", Idle)
  /\ UNCHANGED <<auxVars, vaultVars, data, schedVars>>

\* DragDropManager.handleColumnDrop: the names in DOM order, the dragged
\* column (index i) at the placeholder, which stands before the pos+1-th of
\* the other columns, or last.
handleColumnDrop(i, pos) ==
  LET draggedColumnName == dom.cols[i].name
      others == RemoveAt([k \in 1..Len(dom.cols) |-> dom.cols[k].name], i)
      kept(s) == SelectSeq(s, LAMBDA n : n # draggedColumnName)
  IN  kept(SubSeq(others, 1, pos)) \o <<draggedColumnName>>
        \o kept(SubSeq(others, pos + 1, Len(others)))

\* A column header dropped: onColumnReorder -> handleColumnReorder.
handleColumnReorder(i, pos) ==
  /\ UserOp
  /\ i \in 1..Len(dom.cols)
  /\ pos \in 0..(Len(dom.cols) - 1)
  /\ stored' = saveColumnConfig(handleColumnDrop(i, pos))
  /\ RenderNow(stored'[getBaseId])
  /\ batch' = Reconfigure(batch)
  /\ ev' = Event("columnReorder", TRUE, "none", Idle)
  /\ UNCHANGED <<auxVars, vaultVars, data, schedVars>>

\* startColumnRename ended by Escape, an empty name or the old name: render().
startColumnRenameRevert(i) ==
  /\ UserOp
  /\ i \in 1..Len(dom.cols)
  /\ i \notin dom.renaming
  /\ dom.cols[i].name # NO_VALUE_COLUMN
  /\ RenderNow(stored[getBaseId])
  /\ ev' = Event("renameRevert", TRUE, "none", Idle)
  /\ UNCHANGED <<auxVars, vaultVars, data, stored, schedVars, batch>>

\* A batch whose synchronous part is done: it either has a write in flight and
\* takes a free slot, or has nothing to write and ends in the same turn of the
\* event loop.
StartBatch(rec, bt, opStart, opEnd) ==
  IF rec.cur = NoPath
  THEN /\ ApplySched(endBatch(beginBatch(Sched), TRUE))
       /\ batch' = bt
       /\ expect' = IF rec.kind = "drop" THEN ExpectAfterDrop(rec) ELSE ExpectBase
       /\ ev' = Event(opEnd, FALSE, "none", rec)
  ELSE /\ Batches \ InFlight # {}
       /\ ApplySched(beginBatch(Sched))
       /\ batch' = [b \in Batches |->
                      IF b = Min(Batches \ InFlight) THEN rec ELSE bt[b]]
       /\ expect' = ExpectBase
       /\ ev' = Event(opStart, FALSE, "none", Idle)

\* The batch of handleRenameColumn: fm[groupByProp] = newName for every entry.
RenameBatch(oldName, newName, entries) ==
  LET rec == [Idle EXCEPT !.kind = "rename", !.target = newName, !.src = oldName,
                          !.paths = entries, !.groupBy = data.groupBy,
                          !.baseId = getBaseId, !.columns = getColumns,
                          !.fresh = DomFresh]
  IN  IF getGroupByProperty = NoPath THEN rec ELSE Advance(rec)

\* startColumnRename committed with a new name: handleRenameColumn.
handleRenameColumn(i, newName) ==
  /\ UserOp
  /\ i \in 1..Len(dom.cols)
  /\ i \notin dom.renaming
  /\ dom.cols[i].name # NO_VALUE_COLUMN
  /\ newName # dom.cols[i].name
  /\ IF Includes(getColumns, newName)
     THEN /\ RenderNow(stored[getBaseId])
          /\ ev' = Event("renameRejected", TRUE, "error", Idle)
          /\ UNCHANGED <<stored, schedVars, batch>>
     ELSE /\ stored' = saveColumnConfig(
                         [k \in 1..Len(getColumns) |->
                            IF getColumns[k] = dom.cols[i].name THEN newName
                            ELSE getColumns[k]])
          /\ StartBatch(RenameBatch(dom.cols[i].name, newName, dom.cols[i].entries),
                        Reconfigure(batch), "renameStart", "renameEnd")
          /\ dom' = [dom EXCEPT !.renaming = @ \cup {i}]
          /\ UNCHANGED <<currentGroups, owed>>
  /\ UNCHANGED <<auxVars, vaultVars, data>>

\* ------------------------------------------------------------- card actions

\* The cards of the board a user can grab: rendered, and not collapsed by the
\* dragging class.
VisibleCards ==
  UNION {Range(dom.cols[i].cards) : i \in 1..Len(dom.cols)} \ dom.dragging

\* DragDropManager.handleCardDrop: the children of the target column's card
\* container in DOM order, the placeholder standing for the dragged card.
orderedPathsOf(filePath, t, pos) ==
  LET shown == SelectSeq(dom.cols[t].cards,
                         LAMBDA q : q \notin dom.dragging /\ q # filePath)
  IN  InsertAt(shown, IF pos > Len(shown) THEN Len(shown) ELSE pos, filePath)

\* The batch of handleCardDrop: the group write of the dragged card when it
\* changes column, then kanban_order = i for orderedPaths[i].
DropBatch(filePath, targetColumnName, orderedPaths) ==
  LET rec == [Idle EXCEPT !.kind = "drop", !.card = filePath,
                          !.target = targetColumnName,
                          !.src = getCardSourceColumn(filePath),
                          !.paths = orderedPaths,
                          !.groupBy = data.groupBy, !.baseId = getBaseId,
                          !.columns = getColumns, !.fresh = DomFresh,
                          !.skipped = ~exists[filePath]]
  IN  IF exists[filePath] /\ rec.src # targetColumnName
      THEN [rec EXCEPT !.cur = filePath, !.idx = 0]
      ELSE Advance(rec)

\* KanbanView.handleCardDrop up to its first await.
handleCardDrop(filePath, targetColumnName, orderedPaths) ==
  IF getGroupByProperty = NoPath
  THEN /\ ev' = Event("dropNoGroupBy", FALSE, "none", Idle)
       /\ expect' = ExpectBase
       /\ UNCHANGED <<schedVars, batch>>
  ELSE StartBatch(DropBatch(filePath, targetColumnName, orderedPaths), batch,
                  "dropStart", "dropEnd")

\* A card dropped on column t with the placeholder at position pos: onDrop.
OnCardDrop(filePath, t, pos) ==
  /\ UserOp
  /\ filePath \in VisibleCards
  /\ t \in 1..Len(dom.cols)
  /\ pos \in 0..Len(dom.cols[t].cards)
  /\ pos <= Len(SelectSeq(dom.cols[t].cards,
                          LAMBDA q : q \notin dom.dragging /\ q # filePath))
  /\ handleCardDrop(filePath, dom.cols[t].name, orderedPathsOf(filePath, t, pos))
  /\ dom' = [dom EXCEPT !.dragging = @ \cup {filePath}]
  /\ UNCHANGED <<auxVars, vaultVars, data, stored, currentGroups, owed>>

\* The group write storing the old column name.
WriteGroupOld(rec) == rec.src

\* The order write counting from one.
WriteOrderFromOne(rec) == rec.idx

\* The value processFrontMatter's callback stores for the write in flight.
WriteGroup(rec) ==
  IF rec.kind = "rename" THEN rec.target
  ELSE IF rec.target = NO_VALUE_COLUMN THEN NullKey ELSE rec.target

WriteOrder(rec) == rec.idx - 1

\* The processFrontMatter call in flight resolves; the handler runs on to its
\* next await or to its end.
CompleteWrite(b) ==
  LET rec == batch[b]
      nxt == Advance(rec)
  IN  /\ rec.kind # "none"
      /\ TimerAvailable
      /\ IF rec.kind = "drop" /\ rec.idx > 0
         THEN /\ fmOrder' = [fmOrder EXCEPT ![rec.cur] = WriteOrder(rec)]
              /\ UNCHANGED fmGroup
         ELSE /\ fmGroup' = [fmGroup EXCEPT ![rec.cur] = WriteGroup(rec)]
              /\ UNCHANGED fmOrder
      /\ IF nxt.cur = NoPath
         THEN /\ ApplySched(endBatch(Sched, TRUE))
              /\ batch' = [Interfere(batch, b) EXCEPT ![b] = Idle]
              /\ owed' = (owed \/ rec.notified)
              /\ expect' = IF rec.kind = "drop" THEN ExpectAfterDrop(nxt)
                           ELSE ExpectAfterWrite
              /\ ev' = Event(IF rec.kind = "drop" THEN "dropEnd" ELSE "renameEnd",
                             FALSE, "none", nxt)
         ELSE /\ batch' = [Interfere(batch, b) EXCEPT ![b] = nxt]
              /\ expect' = ExpectAfterWrite
              /\ ev' = Event("write", FALSE, "none", Idle)
              /\ UNCHANGED <<schedVars, owed>>
      /\ UNCHANGED <<auxVars, exists, fm, data, stored, currentGroups, dom, ops>>

\* The processFrontMatter call in flight rejects: the exception leaves the
\* handler through its finally block.
FailWrite(b) ==
  /\ batch[b].kind # "none"
  /\ ApplySched(endBatch(Sched, FALSE))
  /\ batch' = [batch EXCEPT ![b] = Idle]
  /\ owed' = (owed \/ batch[b].notified)
  /\ expect' = ExpectBase
  /\ ev' = Event("writeFail", FALSE, "none", batch[b])
  /\ UNCHANGED <<auxVars, vaultVars, data, stored, currentGroups, dom, ops>>

\* The Add card control of column i: createNewCard(title, columnName,
\* sorted.length), the new note at the free path p.
createNewCard(i, p, ok) ==
  /\ UserOp
  /\ i \in 1..Len(dom.cols)
  /\ dom.cols[i].name # NO_VALUE_COLUMN
  /\ ~exists[p]
  /\ IF getGroupByProperty = NoPath
     THEN /\ ev' = Event("createNoGroupBy", FALSE, "error", Idle)
          /\ expect' = ExpectBase
          /\ UNCHANGED <<vaultVars, batch>>
     ELSE IF ok
     THEN /\ exists' = [exists EXCEPT ![p] = TRUE]
          /\ fmGroup' = [fmGroup EXCEPT ![p] = dom.cols[i].name]
          /\ fmOrder' = [fmOrder EXCEPT ![p] = Len(dom.cols[i].entries)]
          /\ fm' = [fm EXCEPT ![p] = NoKeys]
          /\ batch' = Interfere(batch, 0)
          /\ expect' = ExpectAfterWrite
          /\ ev' = Event("create", FALSE, "info", Idle)
     ELSE /\ ev' = Event("createFail", FALSE, "none", Idle)
          /\ expect' = ExpectBase
          /\ UNCHANGED <<vaultVars, batch>>
  /\ UNCHANGED <<auxVars, data, stored, currentGroups, dom, schedVars, owed>>

\* The card menu's Rename committed: renameFile(file, newPath), which
\* rejects when a file is at newPath, then scheduleRender().
startCardRename(p, q) ==
  /\ UserOp
  /\ TimerAvailable
  /\ p \in VisibleCards
  /\ exists[p]
  /\ IF q = p
     THEN /\ ev' = Event("cardRenameSame", FALSE, "none", Idle)
          /\ expect' = ExpectBase
          /\ UNCHANGED <<vaultVars, batch>>
     ELSE IF exists[q]
     THEN /\ ev' = Event("cardRenameFail", FALSE, "error", Idle)
          /\ expect' = ExpectBase
          /\ UNCHANGED <<vaultVars, batch>>
     ELSE /\ exists' = [exists EXCEPT ![p] = FALSE, ![q] = TRUE]
          /\ fmGroup' = [fmGroup EXCEPT ![p] = NullKey, ![q] = fmGroup[p]]
          /\ fmOrder' = [fmOrder EXCEPT ![p] = Infinity, ![q] = fmOrder[p]]
          /\ fm' = [fm EXCEPT ![p] = NoKeys, ![q] = fm[p]]
          /\ batch' = [b \in Batches |->
                         IF batch[b].cur = p
                         THEN [Interfere(batch, 0)[b] EXCEPT !.cur = q]
                         ELSE Interfere(batch, 0)[b]]
          /\ expect' = ExpectAfterWrite
          /\ ev' = Event("cardRename", FALSE, "none", Idle)
  /\ ApplySched(scheduleRender(Sched))
  /\ UNCHANGED <<auxVars, data, stored, currentGroups, dom, owed>>

\* Tags.extractTagsFromFile: frontmatter.tags ?? frontmatter.tag.
extractTagsFromFile(p) == IF fm[p].tags # <<>> THEN fm[p].tags ELSE fm[p].tag

\* What the TagEditModal hands to onSubmit: the current tags, with a tag
\* added that is not among them, or with the last one removed.
TagEditModal(currentTags) ==
  {currentTags}
    \cup (IF Includes(currentTags, "z") THEN {} ELSE {Append(currentTags, "z")})
    \cup (IF currentTags = <<>> THEN {}
          ELSE {SubSeq(currentTags, 1, Len(currentTags) - 1)})

\* The callback replacing the whole frontmatter by the tag list.
TagWriteReplace(keys, newTags) == [NoKeys EXCEPT !.tags = newTags]

\* The processFrontMatter callback of promptEditTags.
TagWrite(keys, newTags) ==
  IF Len(newTags) = 0 THEN [keys EXCEPT !.tags = <<>>, !.tag = <<>>]
  ELSE [keys EXCEPT !.tags = newTags]

\* The card menu's Edit tags, saved: promptEditTags(file).
promptEditTags(p, newTags) ==
  /\ UserOp
  /\ p \in VisibleCards
  /\ exists[p]
  /\ newTags \in TagEditModal(extractTagsFromFile(p))
  /\ fm' = [fm EXCEPT ![p] = TagWrite(fm[p], newTags)]
  /\ expect' = ExpectBase
  /\ ev' = Event("editTags", FALSE, "none", [Idle EXCEPT !.card = p])
  /\ UNCHANGED <<auxVars, exists, fmGroup, fmOrder, data, stored, currentGroups, dom,
                 schedVars, batch, owed>>

Next ==
  \/ \E gb \in BOOLEAN : HostDataUpdated(gb)
  \/ \E t \in TimerIds : TimerFire(t)
  \/ \E name \in UserNames : promptAddColumn(name)
  \/ \E i \in 1..Len(dom.cols) : handleDeleteColumn(i)
  \/ \E i \in 1..Len(dom.cols), pos \in 0..Len(dom.cols) : handleColumnReorder(i, pos)
  \/ \E i \in 1..Len(dom.cols) : startColumnRenameRevert(i)
  \/ \E i \in 1..Len(dom.cols), newName \in UserNames : handleRenameColumn(i, newName)
  \/ \E p \in Paths, t \in 1..Len(dom.cols), pos \in 0..Cardinality(Paths) :
       OnCardDrop(p, t, pos)
  \/ \E b \in Batches : CompleteWrite(b)
  \/ \E b \in Batches : FailWrite(b)
  \/ \E i \in 1..Len(dom.cols), p \in Paths, ok \in BOOLEAN : createNewCard(i, p, ok)
  \/ \E p \in Paths, q \in Paths : startCardRename(p, q)
  \/ \E p \in Paths : \E newTags \in TagEditModal(extractTagsFromFile(p)) :
       promptEditTags(p, newTags)

Spec == Init /\ [][Next]_vars

FairSpec ==
  /\ Init /\ [][Next]_vars
  /\ WF_vars(\E t \in TimerIds : TimerFire(t))
  /\ WF_vars(\E b \in Batches : CompleteWrite(b) \/ FailWrite(b))

\* ------------------------------------------------------------ card creation
\* createNewCard on its own, with titles, column names and paths as texts
\* (sequences of characters) and the note's frontmatter as the host reads it
\* back from the text the handler writes.

\* Notes created in one run.
MaxNotes == 3

UNSAFE_FILENAME_CHARS == {"\\", "/", ":", "*", "?", "\"", "<", ">", "|"}

sanitizeFilename(name) ==
  SelectSeq(name, LAMBDA ch : ch \notin UNSAFE_FILENAME_CHARS)

DigitChars == <<"0", "1", "2", "3", "4", "5", "6", "7", "8", "9">>

\* String(n) of a template literal.
RECURSIVE Decimal(_)
Decimal(n) ==
  IF n < 10 THEN <<DigitChars[n + 1]>>
  ELSE Decimal(n \div 10) \o <<DigitChars[(n % 10) + 1]>>

\* The titles typed into the inline card input.
Titles == {<<"T">>, <<"T", " ", "1">>, <<"T", "?">>}

\* The names of the columns that offer Add card.
ColumnTexts == {<<"A">>, <<"0", "1">>, <<"#", "1">>, <<"A", ":", " ", "B">>}

\* getTargetFolder: the folder of the board's first entry.
getTargetFolder == <<"Tasks">>

\* `${folder}/${safeName}.md`, `${folder}/${safeName} ${counter}.md`
CardPath(folder, safeName, counter) ==
  folder \o <<"/">> \o safeName
    \o (IF counter = 0 THEN <<>> ELSE <<" ">> \o Decimal(counter)) \o <<".md">>

NotePaths(ns) == {n.path : n \in ns}

RECURSIVE FreePath(_, _, _, _)
FreePath(folder, safeName, counter, ns) ==
  IF CardPath(folder, safeName, counter) \in NotePaths(ns)
  THEN FreePath(folder, safeName, counter + 1, ns)
  ELSE CardPath(folder, safeName, counter)

\* A YAML plain scalar ends where a comment starts: at a "#" that begins the
\* text or follows a space.
CommentStart(text) ==
  {i \in 1..Len(text) : text[i] = "#" /\ (i = 1 \/ text[i - 1] = " ")}

RECURSIVE TrimEnd(_)
TrimEnd(text) ==
  IF text # <<>> /\ text[Len(text)] = " " THEN TrimEnd(SubSeq(text, 1, Len(text) - 1))
  ELSE text

RECURSIVE StripZeros(_)
StripZeros(text) ==
  IF Len(text) > 1 /\ Head(text) = "0" THEN StripZeros(Tail(text)) ELSE text

\* The value the metadata cache holds for the frontmatter line
\* `${groupByProp}: ${columnName}`, as the host's YAML parser reads it and
\* getColumnName's String() prints it: kind "invalid" when the line is no
\* valid YAML, "null" for an empty value, "value" otherwise.
parseYaml(text) ==
  LET scalar == TrimEnd(IF CommentStart(text) = {} THEN text
                        ELSE SubSeq(text, 1, Min(CommentStart(text)) - 1))
      mapping == \E i \in 1..Len(scalar) :
                   scalar[i] = ":" /\ (i = Len(scalar) \/ scalar[i + 1] = " ")
  IN  IF mapping THEN [kind |-> "invalid", text |-> <<>>]
      ELSE IF scalar = <<>> THEN [kind |-> "null", text |-> <<>>]
      ELSE IF \A i \in 1..Len(scalar) : scalar[i] \in Range(DigitChars)
      THEN [kind |-> "value", text |-> StripZeros(scalar)]
      ELSE [kind |-> "value", text |-> scalar]

\* The column the board shows a note in.
NoteColumn(n) == IF n.group.kind = "value" THEN n.group.text ELSE <<NO_VALUE_COLUMN>>

\* The note the host holds after vault.create(filePath, frontmatter): an
\* unreadable frontmatter leaves the note without properties.
NoteOf(path, columnName, orderIndex) ==
  [path |-> path,
   group |-> parseYaml(columnName),
   order |-> IF parseYaml(columnName).kind = "invalid" THEN Infinity ELSE orderIndex]

\* CardManager.createNewCard(title, columnName, orderIndex); ok: vault.create
\* resolves.
CardManager_createNewCard(title, columnName, orderIndex, ok) ==
  /\ Cardinality(notes) < MaxNotes
  /\ IF getGroupByProperty = NoPath
     THEN /\ ev' = Event("createNoGroupBy", FALSE, "error", Idle)
          /\ notes' = notes
     ELSE LET filePath == FreePath(getTargetFolder, sanitizeFilename(title), 0, notes)
          IN  IF ok
              THEN /\ notes' = notes \cup {NoteOf(filePath, columnName, orderIndex)}
                   /\ ev' = Event("create", FALSE, "info", Idle)
              ELSE /\ notes' = notes
                   /\ ev' = Event("createFail", FALSE, "none", Idle)
  /\ UNCHANGED <<vaultVars, unloaded, viewVars, tree, views, probe, dd>>

CreateInit ==
  /\ VaultInitA
  /\ StoredInit
  /\ \E gb \in BOOLEAN : ViewInit(gb)
  /\ notes \in {{}, {NoteOf(CardPath(getTargetFolder, <<"T">>, 0), <<"A">>, 0)}}
  /\ tree = [NoTree EXCEPT !.folders = {getTargetFolder}]
  /\ views = NoViews
  /\ probe = NoProbe
  /\ dd = NoDrag
  /\ unloaded = FALSE

CreateNext ==
  \E title \in Titles, columnName \in ColumnTexts, orderIndex \in 0..1, ok \in BOOLEAN :
    CardManager_createNewCard(title, columnName, orderIndex, ok)

CreateSpec == CreateInit /\ [][CreateNext]_vars

\* -------------------------------------------------------- board scaffolding
\* The command "Create new board": createBoard, with names and paths as texts.

\* The names and folders submitted by the CreateBoardModal (trimmed, the name
\* not empty).
BoardNames == {<<"B">>, <<"B", "2">>, <<"B", "/", "C">>, <<"B", ":", "C">>}
BoardFolders == {<<"F">>, <<"F", "?">>, <<"G">>}

sampleTasks ==
  << [title |-> <<"Plan project">>, value |-> <<"To Do">>, order |-> 0],
     [title |-> <<"Research and discovery">>, value |-> <<"To Do">>, order |-> 1],
     [title |-> <<"Build first feature">>, value |-> <<"In Progress">>, order |-> 0],
     [title |-> <<"Fix onboarding bug">>, value |-> <<"In Progress">>, order |-> 1],
     [title |-> <<"Write documentation">>, value |-> <<"Done">>, order |-> 0] >>

\* folder.replace(/[\\:*?"<>|]/g, "")
safeFolderOf(folder) ==
  SelectSeq(folder, LAMBDA ch : ch \notin (UNSAFE_FILENAME_CHARS \ {"/"}))

tasksFolderOf(folder) == safeFolderOf(folder) \o <<"/", "Tasks">>

basePathOf(name, folder) == safeFolderOf(folder) \o <<"/">> \o name \o <<".base">>

taskPathOf(folder, task) ==
  tasksFolderOf(folder) \o <<"/">> \o sanitizeFilename(task.title) \o <<".md">>

\* vault.getAbstractFileByPath(path) finds a folder or a file.
PathExists(path, tr, ns) == path \in tr.folders \cup tr.bases \cup NotePaths(ns)

\* vault.create(path, ...) resolves: the parent folder is there and the file
\* name has none of the characters that are invalid in file names.
vaultCreateOk(path, tr) ==
  LET slash == {i \in 1..Len(path) : path[i] = "/"}
      last == CHOOSE i \in slash : \A j \in slash : j <= i
  IN  /\ slash # {}
      /\ SubSeq(path, 1, last - 1) \in tr.folders
      /\ \A i \in (last + 1)..Len(path) : path[i] \notin UNSAFE_FILENAME_CHARS

\* BaseBoardPlugin.createBoard({name, folder, groupBy}).
createBoard(name, folder, groupBy) ==
  LET made == [tree EXCEPT !.folders = @ \cup {safeFolderOf(folder), tasksFolderOf(folder)}]
      basePath == basePathOf(name, folder)
  IN  /\ IF PathExists(basePath, made, notes)
         THEN /\ tree' = made
              /\ notes' = notes
              /\ ev' = Event("createBoardExists", FALSE, "error", Idle)
         ELSE IF ~vaultCreateOk(basePath, made)
         THEN /\ tree' = made
              /\ notes' = notes
              /\ ev' = Event("createBoardFail", FALSE, "none", Idle)
         ELSE /\ tree' = [made EXCEPT !.bases = @ \cup {basePath}]
              /\ notes' = notes \cup
                   {NoteOf(taskPathOf(folder, sampleTasks[i]), sampleTasks[i].value,
                           sampleTasks[i].order) :
                      i \in {k \in 1..Len(sampleTasks) :
                               ~PathExists(taskPathOf(folder, sampleTasks[k]), made, notes)}}
              /\ ev' = Event("createBoard", FALSE, "info", Idle)
      /\ UNCHANGED <<vaultVars, unloaded, viewVars, views, probe, dd>>

\* The vault before the command: empty, or folder F with some of the sample
\* notes' paths taken by notes of the user.
BoardInit ==
  /\ VaultInitA
  /\ StoredInit
  /\ ViewInit(TRUE)
  /\ \E taken \in SUBSET (1..Len(sampleTasks)) :
       /\ notes = {NoteOf(taskPathOf(<<"F">>, sampleTasks[i]), <<"Later">>, 7) : i \in taken}
       /\ tree = IF taken = {} THEN NoTree
                 ELSE [NoTree EXCEPT !.folders = {<<"F">>, tasksFolderOf(<<"F">>)}]
  /\ views = NoViews
  /\ probe = NoProbe
  /\ dd = NoDrag
  /\ unloaded = FALSE

BoardNext ==
  \E name \in BoardNames, folder \in BoardFolders : createBoard(name, folder, <<"status">>)

BoardSpec == BoardInit /\ [][BoardNext]_vars

\* ------------------------------------------------------------ several boards
\* Two .base files open as kanban views of the same plugin instance, each
\* over notes of its own; plugin.data_.columnConfigs (stored) is shared.

BaseFiles == {"x.base", "y.base"}

\* The group-by properties a .base file may configure.
GroupBys == {<<"note.status">>, <<"note.stage">>}

\* getBaseId: `${path}::${groupBy}` with path = data?.file?.path ??
\* data?.filePath ?? data?.config?.filePath ?? "".
getBaseIdOf(d) == d.path \o <<"::">> \o d.groupBy

\* getColumns() of the board of file f, in the given state.
getColumnsOn(st, vw, f) == getColumnsOf(st[getBaseIdOf(vw[f].data)], vw[f].groups)

\* The column handlers of the board of file f.
saveColumnConfigOn(f, columns) ==
  /\ UserOp
  /\ stored' = [stored EXCEPT ![getBaseIdOf(views[f].data)] = columns]

promptAddColumnOn(f, name) ==
  /\ IF Includes(getColumnsOn(stored, views, f), name)
     THEN /\ UserOp
          /\ ev' = Event("addRejected", FALSE, "error", [Idle EXCEPT !.card = f])
          /\ UNCHANGED stored
     ELSE /\ saveColumnConfigOn(f, Append(getColumnsOn(stored, views, f), name))
          /\ ev' = Event("addColumn", TRUE, "none", [Idle EXCEPT !.card = f])
  /\ UNCHANGED <<vaultVars, unloaded, notes, tree, probe, dd, views, data, currentGroups, dom, schedVars,
                 batch, owed, expect>>

handleDeleteColumnOn(f, name) ==
  /\ Includes(getColumnsOn(stored, views, f), name)
  /\ name # NO_VALUE_COLUMN
  /\ getGroupForColumn(views[f].groups, name).entries = <<>>
  /\ saveColumnConfigOn(f, SelectSeq(getColumnsOn(stored, views, f), LAMBDA c : c # name))
  /\ ev' = Event("deleteColumn", TRUE, "none", [Idle EXCEPT !.card = f])
  /\ UNCHANGED <<vaultVars, unloaded, notes, tree, probe, dd, views, data, currentGroups, dom, schedVars,
                 batch, owed, expect>>

handleColumnReorderOn(f, i, pos) ==
  LET columns == getColumnsOn(stored, views, f)
  IN  /\ i \in 1..Len(columns)
      /\ pos \in 0..(Len(columns) - 1)
      /\ saveColumnConfigOn(f, InsertAt(RemoveAt(columns, i), pos, columns[i]))
      /\ ev' = Event("columnReorder", TRUE, "none", [Idle EXCEPT !.card = f])
      /\ UNCHANGED <<vaultVars, unloaded, notes, tree, probe, dd, views, data, currentGroups, dom, schedVars,
                     batch, owed, expect>>

\* handleRenameColumn with its frontmatter writes done and shown: the entries
\* of the column are the board's own notes.
handleRenameColumnOn(f, oldName, newName) ==
  LET columns == getColumnsOn(stored, views, f)
  IN  /\ Includes(columns, oldName)
      /\ oldName # NO_VALUE_COLUMN
      /\ newName # oldName
      /\ IF Includes(columns, newName)
         THEN /\ UserOp
              /\ ev' = Event("renameRejected", TRUE, "error", [Idle EXCEPT !.card = f])
              /\ UNCHANGED <<stored, views>>
         ELSE /\ saveColumnConfigOn(f, [k \in 1..Len(columns) |->
                                          IF columns[k] = oldName THEN newName
                                          ELSE columns[k]])
              /\ views' = [views EXCEPT ![f].groups =
                             [k \in 1..Len(@) |->
                                IF getColumnName(@[k].key) = oldName
                                THEN Group(newName, @[k].entries) ELSE @[k]]]
              /\ ev' = Event("renameEnd", FALSE, "none", [Idle EXCEPT !.card = f])
      /\ UNCHANGED <<vaultVars, unloaded, notes, tree, probe, dd, data, currentGroups, dom,
                     schedVars, batch, owed, expect>>

\* Two boards; the host's query result names the .base file (exposed) or
\* carries none of file.path, filePath, config.filePath.
ViewsInit ==
  /\ VaultInitA
  /\ ViewInit(TRUE)
  /\ stored = [id \in {getBaseIdOf([path |-> pa, groupBy |-> gb]) :
                         pa \in {<<f>> : f \in BaseFiles} \cup {<<>>}, gb \in GroupBys}
                |-> <<>>]
  /\ notes = {}
  /\ tree = NoTree
  /\ probe = NoProbe
  /\ dd = NoDrag
  /\ unloaded = FALSE
  /\ \E exposed \in BOOLEAN, gx \in GroupBys, gy \in GroupBys :
       views = [f \in BaseFiles |->
                  [data |-> [path |-> IF exposed THEN <<f>> ELSE <<>>,
                             groupBy |-> IF f = "x.base" THEN gx ELSE gy],
                   groups |-> IF f = "x.base" THEN <<Group("A", <<"x1">>)>>
                              ELSE <<Group("A", <<"y1">>), Group("B", <<"y2">>)>>]]

ViewsNext ==
  \/ \E f \in BaseFiles, name \in UserNames : promptAddColumnOn(f, name)
  \/ \E f \in BaseFiles, name \in UserNames : handleDeleteColumnOn(f, name)
  \/ \E f \in BaseFiles, i \in 1..4, pos \in 0..3 : handleColumnReorderOn(f, i, pos)
  \/ \E f \in BaseFiles, oldName \in UserNames, newName \in UserNames :
       handleRenameColumnOn(f, oldName, newName)

ViewsSpec == ViewsInit /\ [][ViewsNext]_vars

\* ------------------------------------------------------------ drop position
\* getDragAfterElement and the placeholder's insertion, on the cards of one
\* container with their bounding boxes.

\* Cards in the container hovered.
MaxEls == 3
\* Largest coordinate of a box's top and of the cursor.
MaxCoord == 3

\* getBoundingClientRect() of a card (top, height; midpoints are kept doubled
\* to stay in the integers) and whether it has the class
\* base-board-card--dragging.
Boxes == [top : 0..MaxCoord, height : {1, 3}, dragging : BOOLEAN]

NEGATIVE_INFINITY == 0 - Infinity

\* The loop of getDragAfterElement taking a child at an equal offset too.
RECURSIVE getDragAfterElementLast(_, _, _, _, _)
getDragAfterElementLast(children, els, cursorPos, closest, closestOffset) ==
  IF els = <<>> THEN closest
  ELSE LET box == children[Head(els)]
           offset == 2 * cursorPos - 2 * box.top - box.height
       IN  IF offset < 0 /\ offset >= closestOffset
           THEN getDragAfterElementLast(children, Tail(els), cursorPos, Head(els), offset)
           ELSE getDragAfterElementLast(children, Tail(els), cursorPos, closest,
                                        closestOffset)

\* The loop of getDragAfterElement over els, the children matching the
\* selector (as indices, 0 for null); offsets are doubled.
RECURSIVE getDragAfterElement(_, _, _, _, _)
getDragAfterElement(children, els, cursorPos, closest, closestOffset) ==
  IF els = <<>> THEN closest
  ELSE LET box == children[Head(els)]
           offset == 2 * cursorPos - 2 * box.top - box.height
       IN  IF offset < 0 /\ offset > closestOffset
           THEN getDragAfterElement(children, Tail(els), cursorPos, Head(els), offset)
           ELSE getDragAfterElement(children, Tail(els), cursorPos, closest,
                                    closestOffset)

\* container.querySelectorAll(".base-board-card:not(.base-board-card--dragging)")
querySelectorAll(children) ==
  SelectSeq([i \in 1..Len(children) |-> i], LAMBDA i : ~children[i].dragging)

\* handleCardDragOver from its getDragAfterElement call on: the container's
\* children afterwards, 0 standing for the placeholder.
handleCardDragOver ==
  LET afterElement == getDragAfterElement(probe.children, querySelectorAll(probe.children),
                                          probe.cursor, 0, 2 * NEGATIVE_INFINITY)
      all == [i \in 1..Len(probe.children) |-> i]
  IN  /\ ~probe.applied
      /\ probe' = [probe EXCEPT
                     !.applied = TRUE,
                     !.closest = afterElement,
                     !.shown = IF afterElement # 0
                               THEN InsertAt(all, afterElement - 1, 0)
                               ELSE Append(all, 0)]
      /\ ev' = Event("dragover", FALSE, "none", Idle)
      /\ UNCHANGED <<vaultVars, unloaded, viewVars, notes, tree, views, dd>>

ProbeInit ==
  /\ VaultInitA
  /\ StoredInit
  /\ ViewInit(TRUE)
  /\ notes = {}
  /\ tree = NoTree
  /\ views = NoViews
  /\ dd = NoDrag
  /\ unloaded = FALSE
  /\ \E n \in 0..MaxEls : \E children \in [1..n -> Boxes], cursor \in 0..(MaxCoord + 2) :
       probe = [NoProbe EXCEPT !.children = children, !.cursor = cursor]

ProbeNext == handleCardDragOver

ProbeSpec == ProbeInit /\ [][ProbeNext]_vars

\* ------------------------------------------------------ drag and drop manager

\* Drags started in one run of the drag-and-drop model.
MaxDrags == 2

\* The boards the manager is initialised on: three columns with three cards,
\* and the board of a base whose data holds the "(No value)" group twice
\* (both columns render the first group of that name).
DragBoards ==
  { << [name |-> "A", cards |-> <<"a", "b">>], [name |-> "B", cards |-> <<"c">>],
       [name |-> "C", cards |-> <<>>] >>,
    << [name |-> "A", cards |-> <<"a", "b">>], [name |-> NO_VALUE_COLUMN, cards |-> <<"c">>],
       [name |-> NO_VALUE_COLUMN, cards |-> <<"c">>] >> }

ColumnNamesOf(cols) == [k \in 1..Len(cols) |-> cols[k].name]

\* The first rendered column of a name (0 when none).
FirstNamed(cols, name) ==
  IF \E k \in 1..Len(cols) : cols[k].name = name
  THEN Min({k \in 1..Len(cols) : cols[k].name = name}) ELSE 0

\* A placeholder that is in the rendered board.
PlaceholderAttached(d) == d.placeholderEl /\ d.ph.kind # "none"

\* removePlaceholder().
removePlaceholder(d) ==
  IF d.placeholderEl THEN [d EXCEPT !.ph = NoPh, !.placeholderEl = FALSE] ELSE d

\* initBoard(boardEl), reached from render(): the container is emptied, the
\* board is built again from what is saved; every element of the old board,
\* with its marks and placeholders, is detached.
initBoard(d) ==
  [removePlaceholder(d) EXCEPT
     !.cols = d.saved, !.colMark = {}, !.cardMark = {}, !.orphans = FALSE,
     !.draggedEl = [d.draggedEl EXCEPT !.live = FALSE],
     !.src = [d.src EXCEPT !.live = FALSE],
     !.raf = [d.raf EXCEPT !.live = FALSE],
     !.rerendered = (d.session # "idle")]

\* The board is free of marks and placeholders and the manager is at rest.
BoardClean(d) ==
  /\ d.colMark = {} /\ d.cardMark = {} /\ ~d.orphans
  /\ ~d.placeholderEl /\ ~d.cardDropped /\ ~d.raf.live /\ d.raf.kind = "none"

\* onDragStart on a column's drag handle.
onDragStartColumn(i) ==
  /\ dd.session = "idle"
  /\ dd.drags < MaxDrags
  /\ i \in 1..Len(dd.cols)
  /\ dd.cols[i].name # ""
  /\ LET el == [kind |-> "column", col |-> i, idx |-> 0, path |-> "", live |-> TRUE]
     IN  dd' = [dd EXCEPT !.dragType = "column", !.draggedEl = el, !.src = el,
                          !.colMark = @ \cup {i}, !.payload = dd.cols[i].name,
                          !.session = "active", !.called = FALSE, !.rerendered = FALSE,
                          !.late = FALSE, !.clean = BoardClean(dd), !.drags = @ + 1,
                          !.out = NoCall]
  /\ ev' = Event("dragstart", FALSE, "none", Idle)
  /\ UNCHANGED <<vaultVars, unloaded, viewVars, notes, tree, views, probe>>

\* onDragStart on a card; the placeholder and the mark wait for the next frame.
onDragStartCard(t, k) ==
  /\ dd.session = "idle"
  /\ dd.drags < MaxDrags
  /\ t \in 1..Len(dd.cols)
  /\ k \in 1..Len(dd.cols[t].cards)
  /\ <<t, k>> \notin dd.cardMark
  /\ LET el == [kind |-> "card", col |-> t, idx |-> k, path |-> dd.cols[t].cards[k],
                live |-> TRUE]
     IN  dd' = [dd EXCEPT !.dragType = "card", !.draggedEl = el, !.src = el, !.raf = el,
                          !.payload = el.path,
                          !.session = "active", !.called = FALSE, !.rerendered = FALSE,
                          !.late = FALSE, !.clean = BoardClean(dd), !.drags = @ + 1,
                          !.out = NoCall]
  /\ ev' = Event("dragstart", FALSE, "none", Idle)
  /\ UNCHANGED <<vaultVars, unloaded, viewVars, notes, tree, views, probe>>

\* The requestAnimationFrame callback of onDragStart: a new placeholder is
\* created and put before the card, the card gets its dragging mark.  A
\* placeholder the manager already held stays where it is.
onDragStartFrame ==
  /\ dd.raf.kind = "card"
  /\ dd' = [dd EXCEPT
       !.raf = NoEl,
       !.orphans = @ \/ PlaceholderAttached(dd),
       !.placeholderEl = TRUE,
       !.ph = IF dd.raf.live
              THEN [kind |-> "cards", col |-> dd.raf.col, idx |-> dd.raf.idx - 1]
              ELSE NoPh,
       !.cardMark = IF dd.raf.live THEN @ \cup {<<dd.raf.col, dd.raf.idx>>} ELSE @,
       !.late = (dd.session # "active")]
  /\ ev' = Event("frame", FALSE, "none", Idle)
  /\ UNCHANGED <<vaultVars, unloaded, viewVars, notes, tree, views, probe>>

\* onDragOver of a card drag: over the cards of column t the placeholder goes
\* before the k-th card (an unmarked one) or to the end; over the rest of the
\* board (t = 0) it is removed.
onDragOverCard(t, k) ==
  /\ dd.session = "active"
  /\ dd.dragType = "card"
  /\ t \in 0..Len(dd.cols)
  /\ IF t = 0
     THEN /\ k = 1
          /\ dd' = removePlaceholder(dd)
     ELSE /\ k \in 1..(Len(dd.cols[t].cards) + 1)
          /\ k <= Len(dd.cols[t].cards) => <<t, k>> \notin dd.cardMark
          /\ dd' = [dd EXCEPT !.placeholderEl = TRUE,
                              !.ph = [kind |-> "cards", col |-> t, idx |-> k - 1]]
  /\ ev' = Event("dragover", FALSE, "none", Idle)
  /\ UNCHANGED <<vaultVars, unloaded, viewVars, notes, tree, views, probe>>

\* onDragOver of a column drag: the placeholder goes before the k-th column
\* (an unmarked one) or before the add-column button.
onDragOverColumn(k) ==
  /\ dd.session = "active"
  /\ dd.dragType = "column"
  /\ k \in 1..(Len(dd.cols) + 1)
  /\ k <= Len(dd.cols) => k \notin dd.colMark
  /\ dd' = [dd EXCEPT !.placeholderEl = TRUE,
                      !.ph = [kind |-> "board", col |-> 0, idx |-> k - 1]]
  /\ ev' = Event("dragover", FALSE, "none", Idle)
  /\ UNCHANGED <<vaultVars, unloaded, viewVars, notes, tree, views, probe>>

\* The loop of handleColumnDrop and handleCardDrop over the children of a
\* container: the placeholder yields the dragged item, an unmarked child of
\* another name yields its name; the dragged item is appended when absent.
RECURSIVE CollectChildren(_, _, _, _, _, _)
CollectChildren(names, marked, phIdx, dragged, k, acc) ==
  LET atPh == IF phIdx = k - 1 THEN acc \o <<dragged>> ELSE acc
  IN  IF k > Len(names)
      THEN IF Includes(atPh, dragged) THEN atPh ELSE atPh \o <<dragged>>
      ELSE CollectChildren(names, marked, phIdx, dragged, k + 1,
             IF k \notin marked /\ names[k] # "" /\ names[k] # dragged
             THEN atPh \o <<names[k]>> ELSE atPh)

\* DragDropManager.handleColumnDrop: the names handed to onColumnReorder.
orderedNamesOf(d) ==
  CollectChildren(ColumnNamesOf(d.cols), d.colMark,
                  IF PlaceholderAttached(d) /\ d.ph.kind = "board" THEN d.ph.idx ELSE 0 - 1,
                  d.payload, 1, <<>>)

\* DragDropManager.handleCardDrop: the paths handed to onCardDrop for a drop
\* on column t.
orderedPathsIn(d, t) ==
  CollectChildren(d.cols[t].cards, {k \in 1..Len(d.cols[t].cards) : <<t, k>> \in d.cardMark},
                  IF PlaceholderAttached(d) /\ d.ph.kind = "cards" /\ d.ph.col = t
                  THEN d.ph.idx ELSE 0 - 1,
                  d.payload, 1, <<>>)

\* What the callbacks were given, with the board they were computed from.
Called(d, kind, list, t) ==
  [kind |-> kind, list |-> list, target |-> t, payload |-> d.payload,
   cols |-> d.cols, colMark |-> d.colMark, cardMark |-> d.cardMark,
   ph |-> IF PlaceholderAttached(d) THEN d.ph ELSE NoPh]

\* The board after the saved column order: each name with its first group.
ColumnsSaved(cols, names) ==
  [k \in 1..Len(names) |->
     [name |-> names[k],
      cards |-> IF FirstNamed(cols, names[k]) = 0 THEN <<>>
                ELSE cols[FirstNamed(cols, names[k])].cards]]

\* The board after a card drop's writes: the card leaves the other columns
\* and the target column lists the ordered paths, then its other cards.
CardsSaved(cols, filePath, targetName, orderedPaths) ==
  [k \in 1..Len(cols) |->
     [cols[k] EXCEPT !.cards =
        IF cols[k].name = targetName
        THEN orderedPaths
             \o SelectSeq(cols[FirstNamed(cols, targetName)].cards,
                          LAMBDA q : ~Includes(orderedPaths, q))
        ELSE SelectSeq(@, LAMBDA q : q # filePath)]]

\* onDragEnd.
onDragEndOf(d) ==
  [(IF d.cardDropped
    THEN [d EXCEPT !.cardDropped = FALSE]
    ELSE IF d.draggedEl.kind # "none"
    THEN [removePlaceholder(d) EXCEPT
            !.colMark = IF d.draggedEl.live /\ d.draggedEl.kind = "column"
                        THEN @ \ {d.draggedEl.col} ELSE @,
            !.cardMark = IF d.draggedEl.live /\ d.draggedEl.kind = "card"
                         THEN @ \ {<<d.draggedEl.col, d.draggedEl.idx>>} ELSE @]
    ELSE d)
   EXCEPT !.draggedEl = NoEl, !.dragType = "none"]

\* onDrop of a column drag: handleColumnDrop, the view's handleColumnReorder
\* (save and render), then onDragEnd.  The source element is detached by the
\* render, so the browser's dragend reaches no listener.
onDropColumn ==
  /\ dd.session = "active"
  /\ dd.dragType = "column"
  /\ LET names == orderedNamesOf(dd)
         called == [dd EXCEPT !.out = Called(dd, "column", names, 0), !.called = TRUE,
                              !.saved = ColumnsSaved(dd.cols, names)]
     IN  dd' = [onDragEndOf(initBoard(called)) EXCEPT !.session = "idle"]
  /\ ev' = Event("columnDrop", TRUE, "none", Idle)
  /\ UNCHANGED <<vaultVars, unloaded, viewVars, notes, tree, views, probe>>

\* onDrop of a card drag on column t, or on the board outside every column
\* (t = 0): cardDropped is set, then handleCardDrop runs.
onDropCard(t) ==
  /\ dd.session = "active"
  /\ dd.dragType = "card"
  /\ t \in 0..Len(dd.cols)
  /\ IF t = 0 \/ dd.payload = ""
     THEN dd' = [dd EXCEPT !.cardDropped = TRUE, !.session = "ending"]
     ELSE LET paths == orderedPathsIn(dd, t)
          IN  dd' = [dd EXCEPT !.cardDropped = TRUE, !.session = "ending",
                               !.out = Called(dd, "card", paths, t), !.called = TRUE,
                               !.saved = CardsSaved(dd.saved, dd.payload,
                                                    dd.cols[t].name, paths)]
  /\ ev' = Event("cardDrop", FALSE, "none", Idle)
  /\ UNCHANGED <<vaultVars, unloaded, viewVars, notes, tree, views, probe>>

\* The drag is released outside the board or cancelled: no drop event.
dragCancel ==
  /\ dd.session = "active"
  /\ dd' = [dd EXCEPT !.session = "ending"]
  /\ ev' = Event("dragcancel", FALSE, "none", Idle)
  /\ UNCHANGED <<vaultVars, unloaded, viewVars, notes, tree, views, probe>>

\* The browser's dragend: it reaches onDragEnd when the source element is
\* still in the board the manager listens on.
onDragEnd ==
  /\ dd.session = "ending"
  /\ dd' = [(IF dd.src.live THEN onDragEndOf(dd) ELSE dd) EXCEPT !.session = "idle"]
  /\ ev' = Event("dragend", FALSE, "none", Idle)
  /\ UNCHANGED <<vaultVars, unloaded, viewVars, notes, tree, views, probe>>

\* render() on a data update or a debounce timer.
renderBoard ==
  /\ dd.cols # <<>>
  /\ dd' = initBoard(dd)
  /\ ev' = Event("render", TRUE, "none", Idle)
  /\ UNCHANGED <<vaultVars, unloaded, viewVars, notes, tree, views, probe>>

DragInit ==
  /\ VaultInitA
  /\ StoredInit
  /\ ViewInit(TRUE)
  /\ notes = {}
  /\ tree = NoTree
  /\ views = NoViews
  /\ probe = NoProbe
  /\ unloaded = FALSE
  /\ \E b \in DragBoards : dd = [NoDrag EXCEPT !.cols = b, !.saved = b]

DragNext ==
  \/ \E i \in 1..3 : onDragStartColumn(i)
  \/ \E t \in 1..3, k \in 1..2 : onDragStartCard(t, k)
  \/ onDragStartFrame
  \/ \E t \in 0..3, k \in 1..3 : onDragOverCard(t, k)
  \/ \E k \in 1..4 : onDragOverColumn(k)
  \/ onDropColumn
  \/ \E t \in 0..3 : onDropCard(t)
  \/ dragCancel
  \/ onDragEnd
  \/ renderBoard

DragSpec == DragInit /\ [][DragNext]_vars

\* ------------------------------------------------------------ view unload

\* onunload(): dragDropManager.destroy(), then the pending debounce timer is
\* cleared.  Handlers between their awaits run on.
onunload ==
  /\ ~unloaded
  /\ unloaded' = TRUE
  /\ timers' = IF renderTimer # 0 THEN timers \ {renderTimer} ELSE timers
  /\ ev' = Event("onunload", FALSE, "none", Idle)
  /\ UNCHANGED <<vaultVars, data, stored, currentGroups, dom, isUpdating, pendingRender,
                 renderTimer, burst, batch, ops, owed, expect, notes, tree, views,
                 probe, dd>>

\* The view's life up to and after onunload: the host and the user act on a
\* loaded view only; timers and pending writes complete in either case.
UnloadNext ==
  \/ \E gb \in BOOLEAN : ~unloaded /\ HostDataUpdated(gb)
  \/ \E t \in TimerIds : TimerFire(t)
  \/ \E i \in 1..Len(dom.cols), newName \in UserNames :
       ~unloaded /\ handleRenameColumn(i, newName)
  \/ \E p \in Paths, t \in 1..Len(dom.cols), pos \in 0..Cardinality(Paths) :
       ~unloaded /\ OnCardDrop(p, t, pos)
  \/ \E b \in Batches : CompleteWrite(b)
  \/ \E b \in Batches : FailWrite(b)
  \/ onunload

UnloadSpec == Init /\ [][UnloadNext]_vars

\* ------------------------------------------------------------------- claims

\* C1: once the card drops, card creations and column renames performed so
\* far have completed, no two cards of the same column carry the same
\* kanban_order value.
C1_OrderUniquePerColumn ==
  \A p \in Paths, q \in Paths :
    ( /\ InFlight = {}
      /\ p # q /\ exists[p] /\ exists[q]
      /\ getColumnName(fmGroup[p]) = getColumnName(fmGroup[q])
      /\ fmOrder[p] # Infinity /\ fmOrder[q] # Infinity )
    => fmOrder[p] # fmOrder[q]

\* C2: the column list returned by getColumns(), and the rendered board,
\* contain no column name twice.
C2_ColumnNamesUnique ==
  LET names == [i \in 1..Len(dom.cols) |-> dom.cols[i].name]
      unique(s) == \A i \in 1..Len(s), j \in 1..Len(s) : i # j => s[i] # s[j]
  IN  unique(getColumns) /\ unique(names)

C4_RenamePostcondition ==
  (ev.op = "renameEnd") =>
    /\ \A i \in 1..Len(ev.fin.paths) :
         exists[ev.fin.paths[i]] => fmGroup[ev.fin.paths[i]] = ev.fin.target
    /\ stored[ev.fin.baseId] =
         [k \in 1..Len(ev.fin.columns) |->
            IF ev.fin.columns[k] = ev.fin.src THEN ev.fin.target
            ELSE ev.fin.columns[k]]

\* C4: when handleRenameColumn(old, new, entries) has completed with a
\* group-by property configured, a file at every entry's path, and no other
\* write to the vault or to the saved column list since it was called, every
\* entry has group new (and, the board having been fresh, no card is left
\* with group old), and the saved column list is the list of the call with
\* old replaced by new in place.
C4_RenamePostconditionAlone ==
  ( /\ ev.op = "renameEnd" /\ ev.fin.groupBy /\ ~ev.fin.skipped
    /\ ~ev.fin.interfered /\ ~ev.fin.reconfigured ) =>
    /\ \A i \in 1..Len(ev.fin.paths) :
         exists[ev.fin.paths[i]] /\ fmGroup[ev.fin.paths[i]] = ev.fin.target
    /\ ev.fin.fresh => \A p \in Paths : exists[p] => fmGroup[p] # ev.fin.src
    /\ stored[ev.fin.baseId] =
         [k \in 1..Len(ev.fin.columns) |->
            IF ev.fin.columns[k] = ev.fin.src THEN ev.fin.target
            ELSE ev.fin.columns[k]]
    /\ Len(stored[ev.fin.baseId]) = Len(ev.fin.columns)

C4_Witness ==
  /\ ev.op = "renameEnd" /\ ev.fin.groupBy /\ ~ev.fin.skipped
  /\ ~ev.fin.interfered /\ ~ev.fin.reconfigured
  /\ Len(ev.fin.paths) >= 2
  /\ Len(ev.fin.columns) >= 2

\* C5: adding a column under a name of the column list, or renaming a column
\* to one, shows a notice and changes neither the saved column configuration
\* nor any card's frontmatter.
C5_DuplicateRejected ==
  [][ \A name \in UserNames :
        ( /\ Includes(getColumns, name)
          /\ \/ promptAddColumn(name)
             \/ \E i \in 1..Len(dom.cols) : handleRenameColumn(i, name) )
        => /\ ev'.notice = "error"
           /\ stored' = stored
           /\ vaultVars' = vaultVars ]_vars

C5_Witness ==
  /\ ev.op \in {"addRejected", "renameRejected"}
  /\ ev.notice = "error"
  /\ Len(getColumns) >= 2

\* C6: render() is never executed while a card-drop or column-rename batch
\* is in flight.
C6_NoRenderDuringBatch == ev.rendered => InFlight = {}

\* C7: once a batch has ended during which onDataUpdated() was called, a
\* render is eventually executed.
C7_NotificationNotLost == owed ~> ~owed

\* C8: at most one render timer is pending, it is the one renderTimer names
\* (so the next scheduleRender() cancels it), and calls made since the last
\* timer's render have exactly one timer, hence one render, outstanding.
C8_Debounce ==
  /\ Cardinality(timers) <= 1
  /\ timers \subseteq {renderTimer}
  /\ (renderTimer # 0) => timers = {renderTimer}
  /\ (burst > 0) <=> (Cardinality(timers) = 1)

C8_Witness == burst = 2 /\ Cardinality(timers) = 1 /\ ev.op # "timer"

\* C9: a failing host file operation (card rename, frontmatter write of a
\* drop or a column rename, card creation) produces a Notice.
C9_FailureNoticed ==
  ev.op \in {"cardRenameFail", "writeFail", "createFail"} => ev.notice = "error"

\* C10: the first render after a completed card drop and the host's next
\* query result shows the target column in the drop's order (the drop made
\* on a board that showed the vault as it was, every file present, no other
\* write to the vault, group-by configured throughout); every render shows
\* every column in non-decreasing kanban_order, cards without a numeric
\* kanban_order last.
C10_DropOrderShown ==
  /\ (expect.shown /\ expect.alone /\ data.groupBy) =>
       \E i \in 1..Len(dom.cols) :
         dom.cols[i].name = expect.column /\ dom.cols[i].cards = expect.paths
  /\ ev.rendered =>
       \A i \in 1..Len(dom.cols) :
         \A j \in 1..Len(dom.cols[i].cards), k \in 1..Len(dom.cols[i].cards) :
           j < k => getFileOrder(dom.cols[i].cards[j])
                      <= getFileOrder(dom.cols[i].cards[k])

\* C14: getColumns() returns the stored column list in its stored order,
\* followed by every data column name missing from it, each once and in data
\* order; with no stored list it returns exactly the data columns; each group
\* of the current data has its column name in the result, and every rendered
\* board has a column for each group of the query result.
C14_ColumnsNeverHidden ==
  LET st == stored[getBaseId]
      dc == dataColumns(currentGroups)
      res == getColumns
      rest == SubSeq(res, Len(st) + 1, Len(res))
      first(x) == Min({i \in 1..Len(dc) : dc[i] = x})
  IN  /\ Len(st) > 0 =>
           /\ Len(res) >= Len(st) /\ SubSeq(res, 1, Len(st)) = st
           /\ Range(rest) = Range(dc) \ Range(st)
           /\ \A j \in 1..Len(rest), k \in 1..Len(rest) :
                j < k => first(rest[j]) < first(rest[k])
      /\ Len(st) = 0 => res = dc
      /\ \A i \in 1..Len(currentGroups) :
           Includes(res, getColumnName(currentGroups[i].key))
      /\ (ev.rendered /\ dom.board) =>
           \A i \in 1..Len(data.groupedData) :
             \E k \in 1..Len(dom.cols) :
               dom.cols[k].name = getColumnName(data.groupedData[i].key)

C14_Witness ==
  /\ Len(stored[getBaseId]) > 0
  /\ Len(getColumns) > Len(stored[getBaseId])
  /\ \E i \in 1..Len(currentGroups) :
       ~Includes(stored[getBaseId], getColumnName(currentGroups[i].key))

\* C12: for two cards rendered in the same column, the card whose `order`
\* frontmatter value is lower is rendered above the card whose `order` value
\* is higher.
C12_OrderPropertyPosition ==
  ev.rendered =>
    \A i \in 1..Len(dom.cols) :
      \A j \in 1..Len(dom.cols[i].cards), k \in 1..Len(dom.cols[i].cards) :
        LET above == fm[dom.cols[i].cards[j]].order
            below == fm[dom.cols[i].cards[k]].order
        IN  (j < k /\ above # <<>> /\ below # <<>>) => above[1] <= below[1]

\* The path under which the file of a batch's write in flight was looked up.
LookupPath(rec) == IF rec.idx = 0 THEN rec.card ELSE rec.paths[rec.idx]

\* The cards a batch may write: the dragged card and the drop's target list,
\* or the entries of the renamed column.
Participants(rec) ==
  IF rec.kind = "drop" THEN {rec.card} \cup Range(rec.paths) ELSE Range(rec.paths)

\* C17: a step of a card drop, a column rename, a tag edit or a column
\* add/delete/reorder creates and removes no file and leaves every
\* frontmatter key other than the group-by property, kanban_order and
\* tags/tag as it was; tags/tag change only on the tag-edited file; the group
\* and kanban_order change only on the file that a batch in flight looked up
\* under the path of the dragged card, of a member of the drop's target list
\* or of an entry of the renamed column; column add/delete/reorder write no
\* frontmatter.
C17_WritesLimited ==
  [][ ev'.op \in {"dropStart", "dropEnd", "dropNoGroupBy", "write", "writeFail",
                  "renameStart", "renameEnd", "renameRejected", "editTags",
                  "addColumn", "addRejected", "deleteColumn", "columnReorder"}
      => /\ exists' = exists
         /\ \A p \in Paths :
              /\ fm'[p].order = fm[p].order
              /\ fm'[p] # fm[p] => (ev'.op = "editTags" /\ ev'.fin.card = p)
              /\ (fmGroup'[p] # fmGroup[p] \/ fmOrder'[p] # fmOrder[p]) =>
                   /\ ev'.op \in {"write", "dropEnd", "renameEnd"}
                   /\ \E b \in Batches :
                        /\ batch[b].kind # "none"
                        /\ batch[b].cur = p
                        /\ LookupPath(batch[b]) \in Participants(batch[b])
         /\ ev'.op \in {"addColumn", "addRejected", "deleteColumn", "columnReorder"}
              => vaultVars' = vaultVars ]_vars

C17_Witness ==
  /\ ev.op = "editTags"
  /\ fm[ev.fin.card].tags = <<"x", "z">>
  /\ fm[ev.fin.card].order = <<2>>
  /\ InFlight # {}

\* C15: createNewCard(title, column, n) with a group-by property configured
\* (and vault.create resolving) creates exactly one new file whose group
\* property is `column`, at the first path among "<name>.md", "<name> 1.md",
\* "<name> 2.md", ... that does not exist in the vault, and modifies no
\* existing file; with no group-by property it creates nothing and shows a
\* notice.
C15_CreateNewCard ==
  [][ \A title \in Titles, columnName \in ColumnTexts, orderIndex \in 0..1 :
        CardManager_createNewCard(title, columnName, orderIndex, TRUE) =>
          IF data.groupBy
          THEN /\ notes \subseteq notes'
               /\ \E n \in notes' \ notes :
                    /\ notes' \ notes = {n}
                    /\ NoteColumn(n) = columnName
                    /\ \E k \in 0..Cardinality(notes) :
                         /\ n.path = CardPath(getTargetFolder, sanitizeFilename(title), k)
                         /\ \A j \in 0..(k - 1) :
                              CardPath(getTargetFolder, sanitizeFilename(title), j)
                                \in NotePaths(notes)
          ELSE notes' = notes /\ ev'.notice = "error" ]_vars

\* C16: createBoard creates the board folder and its Tasks folder when
\* absent, creates the .base file and the sample notes (each with the group
\* property and a kanban_order unique within its column), and if a file
\* already exists at the .base path it shows a notice and creates neither the
\* .base file nor any sample note; an already existing sample note is left
\* unmodified.
C16_CreateBoard ==
  [][ \A name \in BoardNames, folder \in BoardFolders :
        createBoard(name, folder, <<"status">>) =>
          /\ tree.folders \cup {safeFolderOf(folder), tasksFolderOf(folder)}
               = tree'.folders
          /\ notes \subseteq notes'
          /\ IF basePathOf(name, folder) \in tree.bases
             THEN /\ ev'.notice = "error"
                  /\ tree'.bases = tree.bases
                  /\ notes' = notes
             ELSE /\ tree'.bases = tree.bases \cup {basePathOf(name, folder)}
                  /\ \A i \in 1..Len(sampleTasks) :
                       \E n \in notes' :
                         /\ n.path = taskPathOf(folder, sampleTasks[i])
                         /\ n \notin notes =>
                              /\ NoteColumn(n) = sampleTasks[i].value
                              /\ n.order = sampleTasks[i].order
                  /\ \A n \in notes' \ notes, m \in notes' \ notes :
                       (n # m /\ NoteColumn(n) = NoteColumn(m)) => n.order # m.order
    ]_vars

\* C13: an add-column, delete-column, rename-column or column-reorder
\* operation performed on one board never changes the column list that
\* getColumns() returns for the other board.
C13_BoardsIndependent ==
  [][ \A f \in BaseFiles :
        ( /\ ev'.op \in {"addColumn", "addRejected", "deleteColumn", "columnReorder",
                          "renameEnd", "renameRejected"}
          /\ ev'.fin.card # f )
        => getColumnsOn(stored', views', f) = getColumnsOn(stored, views, f) ]_vars

\* C18: getDragAfterElement returns, among the matching elements whose
\* midpoint lies strictly after the cursor, the one whose midpoint is closest
\* to the cursor, the first such element in document order on a tie, and null
\* exactly when no matching element has its midpoint after the cursor; the
\* placeholder goes before the element returned, and to the end on null.
C18_NearestFollowingMidpoint ==
  LET ch == probe.children
      mid(i) == 2 * ch[i].top + ch[i].height
      after == {i \in 1..Len(ch) : ~ch[i].dragging /\ mid(i) > 2 * probe.cursor}
      r == probe.closest
  IN  probe.applied =>
        /\ r = 0 <=> after = {}
        /\ r # 0 =>
             /\ r \in after
             /\ \A j \in after : mid(r) <= mid(j) /\ (mid(j) = mid(r) => r <= j)
             /\ \E k \in 1..(Len(probe.shown) - 1) :
                  probe.shown[k] = 0 /\ probe.shown[k + 1] = r
        /\ r = 0 => probe.shown[Len(probe.shown)] = 0
        /\ Len(probe.shown) = Len(ch) + 1
        /\ SelectSeq(probe.shown, LAMBDA x : x # 0) = [i \in 1..Len(ch) |-> i]

C18_Witness ==
  LET ch == probe.children
      mid(i) == 2 * ch[i].top + ch[i].height
  IN  /\ probe.applied
      /\ probe.closest # 0
      /\ \E j \in 1..Len(ch) :
           /\ j > probe.closest /\ ~ch[j].dragging
           /\ mid(j) = mid(probe.closest)
      /\ \E j \in 1..Len(ch) : ~ch[j].dragging /\ mid(j) < 2 * probe.cursor

\* C20: when a card or column drag ends without onCardDrop or
\* onColumnReorder having been invoked for it, then after dragend the dragged
\* element no longer carries its dragging mark and no placeholder remains in
\* the board.  Stated for a drag that started on a clean board, whose frame
\* callback ran while the drag was active, with no render during the drag.
C20_CancelledDragRestores ==
  ( /\ ev.op = "dragend"
    /\ ~dd.called
    /\ dd.clean /\ ~dd.rerendered /\ ~dd.late /\ dd.raf.kind = "none" )
  => /\ dd.src.kind = "card" => <<dd.src.col, dd.src.idx>> \notin dd.cardMark
     /\ dd.src.kind = "column" => dd.src.col \notin dd.colMark
     /\ ~PlaceholderAttached(dd)
     /\ ~dd.orphans

\* No two rendered columns share a name.
DistinctNames(cols) ==
  \A i, j \in 1..Len(cols) : cols[i].name = cols[j].name => i = j

\* The list a drop is expected to hand over: the children other than the
\* dragged one (at the indices draggedAt) in DOM order, the dragged one at the placeholder (phIdx
\* children precede it) or last when phIdx is negative.
ExpectedOrder(children, draggedAt, phIdx, dragged) ==
  LET others == (1..Len(children)) \ draggedAt
      RECURSIVE Build(_, _)
      Build(k, acc) ==
        IF k > Len(children) THEN acc
        ELSE Build(k + 1, IF k \in others THEN acc \o <<children[k]>> ELSE acc)
      kept == Build(1, <<>>)
      pos == IF phIdx < 0 THEN Len(kept)
             ELSE Cardinality({k \in others : k <= phIdx})
  IN  InsertAt(kept, pos, dragged)

\* C19: the list handed to onCardDrop holds the dragged card's path once, at
\* the placeholder's position when the placeholder is in the target column's
\* card container and last otherwise, and every other card rendered in the
\* target column once, in DOM order.  Stated for a board of distinct column
\* names and a drag with no render in it whose frame callback has run.
C19_OrderedPaths ==
  ( /\ ev.op = "cardDrop" /\ dd.out.kind = "card"
    /\ DistinctNames(dd.out.cols)
    /\ ~dd.rerendered /\ ~dd.late /\ dd.raf.kind = "none" )
  => LET o == dd.out
         cards == o.cols[o.target].cards
     IN  o.list = ExpectedOrder(cards, {k \in 1..Len(cards) : cards[k] = o.payload},
                                IF o.ph.kind = "cards" /\ o.ph.col = o.target
                                THEN o.ph.idx ELSE 0 - 1,
                                o.payload)

\* C11: the list passed to onColumnReorder is the rendered column names with
\* the dragged column moved to the placeholder's position (last when no
\* placeholder is in the board) and the other columns in their previous
\* relative order.
C11_ColumnPermutation ==
  (ev.op = "columnDrop" /\ dd.out.kind = "column")
  => LET o == dd.out
     IN  o.list = ExpectedOrder(ColumnNamesOf(o.cols), {dd.src.col},
                                IF o.ph.kind = "board" THEN o.ph.idx ELSE 0 - 1,
                                o.payload)
\* C21: after a dragend has been handled (and after a column drop, whose
\* handler runs onDragEnd itself) dragType and draggedEl are null and
\* cardDropped is false; cardDropped is true only between a card drop and the
\* dragend that follows it, renders of the board included.
C21_DragStateIdle ==
  /\ dd.cardDropped => dd.session = "ending"
  /\ ((ev.op = "dragend" /\ dd.src.live) \/ ev.op = "columnDrop")
       => /\ dd.dragType = "none"
          /\ dd.draggedEl.kind = "none"
          /\ ~dd.cardDropped

\* C22: isUpdating is true exactly when at least one card-drop or
\* column-rename batch is in flight, also after a batch that ended on a
\* failed write and while an overlapping batch is still running.
C22_BusyFlagTracksBatches == isUpdating <=> InFlight # {}

\* C23: once onunload has run, render() is not executed again, whether a
\* debounce timer was pending or a batch with a pending render was in flight
\* when the view was unloaded.
C23_NoRenderAfterUnload == unloaded => ~ev.rendered

\* C24: a drop on the column the card is rendered in writes no group
\* property: its batch starts with a kanban_order write (or has nothing to
\* write) and each of its writes changes only the kanban_order of the file
\* it looked up under a path of orderedPaths; a drop with no group-by property configured writes nothing
\* and leaves isUpdating and pendingRender as they were.
C24_MoveOnlyIfNeeded ==
  [][ /\ \A p \in Paths, t \in 1..Len(dom.cols), pos \in 0..Cardinality(Paths) :
           OnCardDrop(p, t, pos) =>
             /\ vaultVars' = vaultVars
             /\ (data.groupBy /\ Includes(dom.cols[t].cards, p)) =>
                  \A b \in Batches :
                    (batch'[b] # batch[b] /\ batch'[b].card = p) =>
                      /\ batch'[b].src = batch'[b].target
                      /\ batch'[b].idx > 0
             /\ ~data.groupBy =>
                  /\ batch' = batch
                  /\ isUpdating' = isUpdating
                  /\ pendingRender' = pendingRender
      /\ \A b \in Batches :
           ( /\ CompleteWrite(b)
             /\ batch[b].kind = "drop"
             /\ batch[b].src = batch[b].target )
           => /\ fmGroup' = fmGroup
              /\ \A q \in Paths :
                   fmOrder'[q] # fmOrder[q] =>
                     /\ q = batch[b].cur
                     /\ batch[b].idx \in 1..Len(batch[b].paths) ]_vars

\* A reorder inside a column has ended; it has written the order of its
\* second card.
C24_Witness ==
  /\ ev.op = "dropEnd"
  /\ ev.fin.src = ev.fin.target
  /\ Len(ev.fin.paths) >= 2
  /\ fmOrder[ev.fin.paths[2]] = 1
  /\ ~ev.fin.interfered

\* C25: the group write of a drop on the "(No value)" column removes the
\* group-by property from the dragged card, and no write of a drop, of a
\* column rename or of a card creation stores the literal "(No value)" as a
\* card's group.
C25_NoValueNeverWritten ==
  [][ /\ \A b \in Batches :
           (CompleteWrite(b) /\ (batch[b].kind = "rename" \/ batch[b].idx = 0))
           => /\ fmGroup'[batch[b].cur] # NO_VALUE_COLUMN
              /\ (batch[b].kind = "drop" /\ batch[b].target = NO_VALUE_COLUMN)
                   => fmGroup'[batch[b].cur] = NullKey
      /\ \A i \in 1..Len(dom.cols), p \in Paths, ok \in BOOLEAN :
           (createNewCard(i, p, ok) /\ exists'[p]) => fmGroup'[p] # NO_VALUE_COLUMN ]_vars
====
